---- MODULE Spec2Model ----
(***************************************************************************)
(* A model of trails/core.py: the DataCache (graph, step_graph, observed   *)
(* and the on-disk directory) and the Steps built on it.                   *)
(*                                                                         *)
(* Python values are tagged records [k |-> kind, v |-> payload]:           *)
(*   "lit"  an integer literal            "str"  a string (tuple of chars) *)
(*   "call" a Call namedtuple (a Trail)   "step" a Step object (its index) *)
(*   "app"  the value returned by a target: <<impl, args, kwargs>>         *)
(* Strings that are unpacked or fed to dict() are tuples of characters.    *)
(* The dict of keyword arguments of a call is the sequence of its          *)
(* <<name, value>> pairs in insertion order.                               *)
(***************************************************************************)
EXTENDS Integers, Sequences, FiniteSets, TLC

VARIABLES
    steps,       \* the Step objects of the running process, by creation order
    graph,       \* DataCache.graph: Trail -> executable entry
    step_graph,  \* DataCache.step_graph: Trail -> Step (index into steps)
    observed,    \* DataCache.observed
    disk,        \* the files of DataCache.directory: path -> content
    fresh,       \* history: this process has not called checkpoint yet
    last         \* history: the last call and its outcome

vars == <<steps, graph, step_graph, observed, disk, fresh, last>>

---------------------------------------------------------------------------
(* Bounds of the model *)

\* Steps created per process: MaxSteps in Spec, SpecKw, SpecRecord and
\* SpecCrash, MaxStepsLong in SpecLong and SpecClean.  MaxObserved bounds
\* the entries of DataCache.observed in SpecRecord: with two, record() also
\* runs when observed already holds an entry.
MaxSteps == 2
MaxStepsLong == 3
MaxObserved == 2

---------------------------------------------------------------------------
(* Inputs: literals, keyword names and target callables *)

Lit(n) == [k |-> "lit", v |-> n]
Str(s) == [k |-> "str", v |-> s]
Dep(t) == [k |-> "call", v |-> t]
StepRef(i) == [k |-> "step", v |-> i]

Lits == {Lit(3)}

\* keyword names 'k' and 'ab'
KeyK == <<"k">>
KeyAB == <<"a", "b">>

\* A target callable: __name__, __code__.co_code, __code__.co_consts, and
\* what calling it does (impl identifies the function it computes; raises
\* says that every call raises).  f1, f2 and f3 are three definitions of a
\* function named f: f2 differs from f1 in its bytecode; f3 differs from f1
\* only in the global it calls (co_names), so co_code and co_consts agree.
\* fx is a definition of f whose body raises.
F1 == [impl |-> "f1", name |-> "f", co_code |-> "bc1", co_consts |-> "cs1", raises |-> FALSE]
F2 == [impl |-> "f2", name |-> "f", co_code |-> "bc2", co_consts |-> "cs1", raises |-> FALSE]
F3 == [impl |-> "f3", name |-> "f", co_code |-> "bc1", co_consts |-> "cs1", raises |-> FALSE]
FX == [impl |-> "fx", name |-> "f", co_code |-> "bc4", co_consts |-> "cs4", raises |-> TRUE]
G1 == [impl |-> "g1", name |-> "g", co_code |-> "bc5", co_consts |-> "cs1", raises |-> FALSE]

\* A dict as Python compares it, and as joblib.hash digests it: by its items,
\* whatever their insertion order
DictOf(kwargs) ==
    [key \in {kwargs[i][1] : i \in DOMAIN kwargs} |->
        kwargs[CHOOSE i \in DOMAIN kwargs : kwargs[i][1] = key][2]]

\* hashabledict(kwargs): a dict that can be hashed; equality and hashing
\* ignore the insertion order
hashabledict(kwargs) == DictOf(kwargs)

\* Call(func, args, kwargs), the namedtuple
Call(func, args, kwargs) == [func |-> func, args |-> args, kwargs |-> kwargs]

NoKwargs == <<>>

NoVal == [k |-> "none", v |-> 0]

\* function(*args, **kwargs) for a target of the inputs
Invoke(target, args, kwargs) ==
    [ok |-> ~target.raises,
     val |-> IF target.raises THEN NoVal
             ELSE [k |-> "app", v |-> <<target.impl, args, kwargs>>]]

---------------------------------------------------------------------------
(* Disk *)

\* joblib.hash: a digest, taken to be collision free
joblib_hash(x) == [md5 |-> x]

make_path(name_tuple) == joblib_hash(name_tuple)

\* trail + ('.store',): a plain tuple
StoreName(trail) == <<trail.func, trail.args, trail.kwargs, ".store">>

BlobFile(name) == [ext |-> "", file |-> make_path(name)]
HashFile(name) == [ext |-> ".hash", file |-> make_path(name)]

None == [none |-> TRUE]

store(d, name, value) ==
    [p \in DOMAIN d \cup {BlobFile(name)} |->
        IF p = BlobFile(name) THEN value ELSE d[p]]

\* joblib.load of a missing file raises
load(d, name) ==
    IF BlobFile(name) \in DOMAIN d
    THEN [ok |-> TRUE, val |-> d[BlobFile(name)]]
    ELSE [ok |-> FALSE, val |-> NoVal]

load_hash(d, name) ==
    IF HashFile(name) \notin DOMAIN d THEN None ELSE d[HashFile(name)]

\* store_hash with a fault: the manifest is never written
store_hash_skip(d, name, hash) == d

store_hash(d, name, hash) ==
    [p \in DOMAIN d \cup {HashFile(name)} |->
        IF p = HashFile(name) THEN hash ELSE d[p]]

---------------------------------------------------------------------------
(* Graph entries and their evaluation *)

\* list(self.kwargs): the keys of the dict, in insertion order
KeyList(kwargs) == [i \in DOMAIN kwargs |-> kwargs[i][1]]

\* (apply_with_kwargs, self.target, list(self.args), list(self.kwargs))
ComputeEntry(s) ==
    [kind |-> "apply_with_kwargs", target |-> s.target,
     args |-> s.args, kwargs |-> KeyList(s.kwargs)]

\* LoadEntry with a fault: the entry names the Trail itself, without '.store'
LoadEntry_trail(trail) ==
    [kind |-> "load", name |-> <<trail.func, trail.args, trail.kwargs>>]

\* (self.dc.load, self.trail + ('.store',))
LoadEntry(trail) == [kind |-> "load", name |-> StoreName(trail)]

Range(seq) == {seq[i] : i \in DOMAIN seq}

\* dict(kwargs) of a list of strings: each string must have two characters,
\* the first is the key and the second the value; a later string replaces an
\* earlier one with the same key
DictOfList(keys) ==
    LET two == {j \in DOMAIN keys : Len(keys[j]) = 2}
        lastOf(c) == CHOOSE j \in two :
                        /\ <<keys[j][1]>> = c
                        /\ \A m \in two : <<keys[m][1]>> = c => m <= j
    IN [ok |-> \A i \in DOMAIN keys : Len(keys[i]) = 2,
        val |-> [c \in {<<keys[j][1]>> : j \in two} |-> Str(<<keys[lastOf(c)][2]>>)]]

\* apply_with_kwargs(function, args, kwargs)
apply_with_kwargs(function, args, kwargs) ==
    LET kw == DictOfList(kwargs)
    IN IF kw.ok THEN Invoke(function, args, kw.val)
       ELSE [ok |-> FALSE, val |-> NoVal]

\* dask.threaded.get(graph, key): the value of node key, the targets invoked
\* on the way, and whether the evaluation raised.  An argument that is a key
\* of the graph is replaced by the value of that node; dependencies are
\* evaluated before the node itself, in the order of the arguments, and the
\* evaluation stops at the first one that raises: the dependencies after it
\* are not evaluated and the node's target is not called.
RECURSIVE Execute(_, _, _)
Execute(g, d, key) ==
    LET e == g[key]
    IN IF e.kind = "load"
       THEN LET r == load(d, e.name)
            IN [ok |-> r.ok, val |-> r.val, invoked |-> {}]
       ELSE LET sub == [i \in DOMAIN e.args |->
                          IF e.args[i].k = "call" /\ e.args[i].v \in DOMAIN g
                          THEN Execute(g, d, e.args[i].v)
                          ELSE [ok |-> TRUE, val |-> e.args[i], invoked |-> {}]]
                failed == {i \in DOMAIN sub : ~sub[i].ok}
                depsOk == failed = {}
                reached == IF depsOk THEN Len(e.args)
                           ELSE CHOOSE i \in failed : \A m \in failed : i <= m
                depsInvoked == UNION {sub[i].invoked : i \in 1..reached}
                r == apply_with_kwargs(e.target, [i \in DOMAIN sub |-> sub[i].val], e.kwargs)
                called == \A i \in DOMAIN e.kwargs : Len(e.kwargs[i]) = 2
            IN IF ~depsOk
               THEN [ok |-> FALSE, val |-> NoVal, invoked |-> depsInvoked]
               ELSE [ok |-> r.ok, val |-> r.val,
                     invoked |-> depsInvoked \cup (IF called THEN {e.target} ELSE {})]

---------------------------------------------------------------------------
(* Step: previous, has_deps, hash *)

IsCall(a) == a.k = "call"

\* Step.previous: the generator's yields, and whether it ran to its end.
\* The first loop yields the Step of each positional Trail and raises
\* KeyError at the first Trail that step_graph does not hold, after the
\* yields before it.  "for k, v in self.trail.kwargs" iterates the keys of
\* the dict, in the insertion order of the Step's keyword arguments, and
\* unpacks each key string into two characters; it yields step_graph[v] for
\* the keys whose second character v is a Call: a character never is, so the
\* second loop yields nothing.
previous(sg, s) ==
    LET deps == SelectSeq(s.trail.args, IsCall)
        missing == {i \in DOMAIN deps : deps[i].v \notin DOMAIN sg}
        argsOk == missing = {}
        reached == IF argsOk THEN Len(deps)
                   ELSE (CHOOSE i \in missing : \A j \in missing : i <= j) - 1
        keys == KeyList(s.kwargs)
        keysOk == \A i \in DOMAIN keys : Len(keys[i]) = 2
        vs == [i \in DOMAIN keys |->
                 IF Len(keys[i]) = 2 THEN Str(<<keys[i][2]>>) ELSE NoVal]
        fromKeys == SelectSeq(vs, IsCall)
    IN [ok |-> argsOk /\ keysOk,
        yield |-> [i \in 1..reached |-> sg[deps[i].v]]
                    \o (IF argsOk THEN [i \in DOMAIN fromKeys |-> sg[fromKeys[i].v]]
                        ELSE <<>>)]

has_deps(s) ==
    \/ \E i \in DOMAIN s.trail.args : IsCall(s.trail.args[i])
    \/ \E key \in DOMAIN s.trail.kwargs : IsCall(s.trail.kwargs[key])

Concat(seqs) ==
    LET RECURSIVE cat(_)
        cat(n) == IF n = 0 THEN <<>> ELSE cat(n - 1) \o seqs[n]
    IN cat(Len(seqs))

\* Step.hash: a string of digests, or raised
RECURSIVE hash(_, _, _)
hash(stps, sg, s) ==
    LET uniquity == <<s.trail, s.args, DictOf(s.kwargs),
                      s.target.co_code, s.target.co_consts>>
        prev == IF has_deps(s) THEN previous(sg, s) ELSE [ok |-> TRUE, yield |-> <<>>]
        subs == [i \in DOMAIN prev.yield |-> hash(stps, sg, stps[prev.yield[i]])]
        ok == prev.ok /\ \A i \in DOMAIN subs : subs[i].ok
    IN [ok |-> ok,
        val |-> IF ok
                THEN [hex |-> Concat([i \in DOMAIN subs |-> subs[i].val.hex])
                              \o <<joblib_hash(uniquity)>>]
                ELSE None]

---------------------------------------------------------------------------
(* Operations *)

\* The last call: op on Step sid (0: on the Cache); from is the Step that
\* Step.step was called on; r is checkpoint's recompute argument; raised says
\* that the call raised; recomputed that checkpoint took its recompute branch;
\* invoked are the targets called; again says that the call before was a
\* checkpoint on the same Step that returned; first that no checkpoint had
\* been called in this process.
Outcome(op, sid, from, r, raised, recomputed, invoked) ==
    [op |-> op, sid |-> sid, from |-> from, r |-> r, raised |-> raised,
     recomputed |-> recomputed, invoked |-> invoked,
     again |-> op = "checkpoint" /\ last.op = "checkpoint" /\ last.sid = sid
               /\ ~last.raised,
     first |-> op = "checkpoint" /\ fresh]

\* DataCache.__init__ on a directory that does not exist yet
Init ==
    /\ steps = <<>>
    /\ graph = <<>>
    /\ step_graph = <<>>
    /\ observed = <<>>
    /\ disk = <<>>
    /\ fresh = TRUE
    /\ last = [op |-> "init", sid |-> 0, from |-> 0, r |-> FALSE, raised |-> FALSE,
               recomputed |-> FALSE, invoked |-> {}, again |-> FALSE, first |-> FALSE]

\* DataCache.__init__ of a fresh process on the directory the previous one
\* left: the maps and observed start empty and no Step of the old process
\* exists
NewSession ==
    /\ steps' = <<>>
    /\ graph' = <<>>
    /\ step_graph' = <<>>
    /\ observed' = <<>>
    /\ fresh' = TRUE
    /\ last' = Outcome("init", 0, 0, FALSE, FALSE, FALSE, {})
    /\ UNCHANGED disk

Put(f, key, value) ==
    [x \in DOMAIN f \cup {key} |-> IF x = key THEN value ELSE f[x]]

\* recompute with a fault: the entry is installed only when the Trail has none
recompute_setdefault(g, s) ==
    IF s.trail \in DOMAIN g THEN g ELSE Put(g, s.trail, ComputeEntry(s))

\* Step.recompute, on the graph
recompute(g, s) == Put(g, s.trail, ComputeEntry(s))

\* NewStep with a fault: the Step is not registered in step_graph
NewStep_unregistered(from, trail, target, args, kwargs) ==
    LET s == [target |-> target, trail |-> trail, args |-> args, kwargs |-> kwargs]
        sid == Len(steps) + 1
    IN /\ steps' = Append(steps, s)
       /\ step_graph' = step_graph
       /\ graph' = recompute(graph, s)
       /\ last' = Outcome("step", sid, from, FALSE, FALSE, FALSE, {})
       /\ UNCHANGED <<observed, disk, fresh>>

\* Step.__init__
NewStep(from, trail, target, args, kwargs) ==
    LET s == [target |-> target, trail |-> trail, args |-> args, kwargs |-> kwargs]
        sid == Len(steps) + 1
    IN /\ steps' = Append(steps, s)
       /\ step_graph' = Put(step_graph, trail, sid)
       /\ graph' = recompute(graph, s)
       /\ last' = Outcome("step", sid, from, FALSE, FALSE, FALSE, {})
       /\ UNCHANGED <<observed, disk, fresh>>

\* DataCache.step(target, *args, **kwargs)
CacheStep(target, args, kwargs) ==
    NewStep(0, Call(target.name, args, hashabledict(kwargs)), target, args, kwargs)

\* Step.step(target, *args, **kwargs), args being what follows the target
StepStep(i, target, more, kwargs) ==
    LET args == <<Dep(steps[i].trail)>> \o more
    IN NewStep(i, Call(target.name, args, hashabledict(kwargs)), target, args, kwargs)

\* Step.recompute
Recompute(i) ==
    /\ graph' = recompute(graph, steps[i])
    /\ last' = Outcome("recompute", i, 0, FALSE, FALSE, FALSE, {})
    /\ UNCHANGED <<steps, step_graph, observed, disk, fresh>>

\* Step.get
Get(i) ==
    LET res == Execute(graph, disk, steps[i].trail)
    IN /\ last' = Outcome("get", i, 0, FALSE, ~res.ok, FALSE, res.invoked)
       /\ UNCHANGED <<steps, graph, step_graph, observed, disk, fresh>>

\* Stale with a fault: the recompute argument is ignored
Stale_unforced(hash_, stored, r) == hash_ # stored

\* hash_ != self.dc.load_hash(self.trail) or recompute
Stale(hash_, stored, r) == hash_ # stored \/ r

\* Step.checkpoint(recompute=r)
Checkpoint(i, r) ==
    LET s == steps[i]
        hash_ == hash(steps, step_graph, s)
        g1 == recompute(graph, s)
        result == Execute(g1, disk, s.trail)
        d1 == store(disk, StoreName(s.trail), result.val)
        d2 == store_hash(d1, s.trail, hash_.val)
    IN /\ UNCHANGED <<steps, step_graph, observed>>
       /\ fresh' = FALSE
       /\ IF ~hash_.ok
          THEN /\ UNCHANGED <<graph, disk>>
               /\ last' = Outcome("checkpoint", i, 0, r, TRUE, FALSE, {})
          ELSE IF Stale(hash_.val, load_hash(disk, s.trail), r)
          THEN IF result.ok
               THEN /\ graph' = Put(g1, s.trail, LoadEntry(s.trail))
                    /\ disk' = d2
                    /\ last' = Outcome("checkpoint", i, 0, r, FALSE, TRUE, result.invoked)
               ELSE /\ graph' = g1
                    /\ UNCHANGED disk
                    /\ last' = Outcome("checkpoint", i, 0, r, TRUE, TRUE, result.invoked)
          ELSE /\ graph' = Put(graph, s.trail, LoadEntry(s.trail))
               /\ UNCHANGED disk
               /\ last' = Outcome("checkpoint", i, 0, r, FALSE, FALSE, {})

\* CheckpointInterrupted with a fault: the manifest is written before the
\* artifact
CheckpointInterrupted_swapped(i, r, at) ==
    LET s == steps[i]
        hash_ == hash(steps, step_graph, s)
        g1 == recompute(graph, s)
        result == Execute(g1, disk, s.trail)
        d1 == store_hash(disk, s.trail, hash_.val)
        d2 == store(d1, StoreName(s.trail), result.val)
    IN /\ hash_.ok
       /\ Stale(hash_.val, load_hash(disk, s.trail), r)
       /\ result.ok
       /\ graph' = g1
       /\ disk' = CASE at = "store" -> d1
                    [] at = "store_hash" -> d2
       /\ fresh' = FALSE
       /\ last' = Outcome("checkpoint", i, 0, r, TRUE, TRUE, result.invoked)
       /\ UNCHANGED <<steps, step_graph, observed>>

\* Step.checkpoint(recompute=r) that took its recompute branch and stopped
\* (a write raised, or the process was interrupted) after the statement named
\* by at and before the next one: after self.dc.store (line 113) or after
\* self.dc.store_hash (line 114).  (Stopping before line 113 leaves the maps
\* and the directory as the checkpoint of a Step whose get() raises does.)
CheckpointInterrupted(i, r, at) ==
    LET s == steps[i]
        hash_ == hash(steps, step_graph, s)
        g1 == recompute(graph, s)
        result == Execute(g1, disk, s.trail)
        d1 == store(disk, StoreName(s.trail), result.val)
        d2 == store_hash(d1, s.trail, hash_.val)
    IN /\ hash_.ok
       /\ Stale(hash_.val, load_hash(disk, s.trail), r)
       /\ result.ok
       /\ graph' = g1
       /\ disk' = CASE at = "store" -> d1
                    [] at = "store_hash" -> d2
       /\ fresh' = FALSE
       /\ last' = Outcome("checkpoint", i, 0, r, TRUE, TRUE, result.invoked)
       /\ UNCHANGED <<steps, step_graph, observed>>

\* DataCache.store(name, value) called by the user
CacheStore(name, value) ==
    /\ disk' = store(disk, name, value)
    /\ last' = Outcome("store", 0, 0, FALSE, FALSE, FALSE, {})
    /\ UNCHANGED <<steps, graph, step_graph, observed, fresh>>

\* DataCache.store_hash(name, hash) called by the user
CacheStoreHash(name, hash_) ==
    /\ disk' = store_hash(disk, name, hash_)
    /\ last' = Outcome("store_hash", 0, 0, FALSE, FALSE, FALSE, {})
    /\ UNCHANGED <<steps, graph, step_graph, observed, fresh>>

\* DataCache.record(target, *args, **kwargs) with the arguments as given:
\* a Step argument is replaced by its get(), anything else is passed as is.
\* The loop stops at the first Step whose get() raises: the arguments after
\* it are not evaluated and the target is not called.
record(target, args, kwargs) ==
    LET sub == [j \in DOMAIN args |->
                  IF args[j].k = "step"
                  THEN Execute(graph, disk, steps[args[j].v].trail)
                  ELSE [ok |-> TRUE, val |-> args[j], invoked |-> {}]]
        failed == {j \in DOMAIN sub : ~sub[j].ok}
        argsOk == failed = {}
        reached == IF argsOk THEN Len(args)
                   ELSE CHOOSE j \in failed : \A m \in failed : j <= m
        r == Invoke(target, [j \in DOMAIN sub |-> sub[j].val], DictOf(kwargs))
        invoked == UNION {sub[j].invoked : j \in 1..reached}
                     \cup (IF argsOk THEN {target} ELSE {})
    IN [ok |-> argsOk /\ r.ok,
        val |-> IF argsOk THEN r.val ELSE NoVal,
        invoked |-> invoked,
        entry |-> <<target.name, args, kwargs, r.val>>]

\* CacheRecord with a fault: the new entry is put in front of the entries
\* observed already holds
CacheRecord_prepend(target, args, kwargs) ==
    LET res == record(target, args, kwargs)
    IN /\ observed' = IF res.ok THEN <<res.entry>> \o observed ELSE observed
       /\ last' = Outcome("record", 0, 0, FALSE, ~res.ok, FALSE, res.invoked)
       /\ UNCHANGED <<steps, graph, step_graph, disk, fresh>>

\* DataCache.record called by the user
CacheRecord(target, args, kwargs) ==
    LET res == record(target, args, kwargs)
    IN /\ observed' = IF res.ok THEN Append(observed, res.entry) ELSE observed
       /\ last' = Outcome("record", 0, 0, FALSE, ~res.ok, FALSE, res.invoked)
       /\ UNCHANGED <<steps, graph, step_graph, disk, fresh>>

\* Step.record: self.dc.record(self.target, *self.args, **self.kwargs)
StepRecord(i) ==
    LET s == steps[i]
        res == record(s.target, s.args, s.kwargs)
    IN /\ observed' = IF res.ok THEN Append(observed, res.entry) ELSE observed
       /\ last' = Outcome("record", i, 0, FALSE, ~res.ok, FALSE, res.invoked)
       /\ UNCHANGED <<steps, graph, step_graph, disk, fresh>>

---------------------------------------------------------------------------
(* Specifications *)

\* The definitions of f a script may hold, and the function it chains with
RootTargets == {F1, F2, FX}
ChainTargets == {G1}

\* Processes that call Cache.step, Step.step, recompute, get and checkpoint
\* with positional arguments, each creating at most bound Steps, one after
\* the other on the same directory.  Step.step is called on any Step when
\* deep, and else only on the Steps made by Cache.step (chains f -> g).
Calls(bound, deep) ==
    \/ NewSession
    \/ \E target \in RootTargets, a \in Lits :
          Len(steps) < bound /\ CacheStep(target, <<a>>, NoKwargs)
    \/ \E i \in DOMAIN steps, target \in ChainTargets :
          /\ Len(steps) < bound
          /\ deep \/ ~has_deps(steps[i])
          /\ StepStep(i, target, <<>>, NoKwargs)
    \/ \E i \in DOMAIN steps : Recompute(i)
    \/ \E i \in DOMAIN steps : Get(i)
    \/ \E i \in DOMAIN steps, r \in BOOLEAN : Checkpoint(i, r)

Next == Calls(MaxSteps, FALSE)

Spec == Init /\ [][Next]_vars

NextLong == Calls(MaxStepsLong, TRUE)

SpecLong == Init /\ [][NextLong]_vars

\* One process that also calls DataCache.store and DataCache.store_hash
\* itself: it stores a literal as the artifact of a Step's Trail, or the hash
\* of a Step as the manifest of a Step's Trail
NextDirect ==
    \/ \E target \in {F1, F2}, a \in Lits :
          Len(steps) < MaxSteps /\ CacheStep(target, <<a>>, NoKwargs)
    \/ \E i \in DOMAIN steps, target \in ChainTargets :
          Len(steps) < MaxSteps /\ ~has_deps(steps[i]) /\ StepStep(i, target, <<>>, NoKwargs)
    \/ \E i \in DOMAIN steps : Recompute(i)
    \/ \E i \in DOMAIN steps : Get(i)
    \/ \E i \in DOMAIN steps, r \in BOOLEAN : Checkpoint(i, r)
    \/ \E i \in DOMAIN steps, value \in Lits :
          CacheStore(StoreName(steps[i].trail), value)
    \/ \E i, j \in DOMAIN steps :
          /\ hash(steps, step_graph, steps[j]).ok
          /\ CacheStoreHash(steps[i].trail, hash(steps, step_graph, steps[j]).val)

SpecDirect == Init /\ [][NextDirect]_vars

\* The processes of SpecLong in which no call raises
NextClean == Calls(MaxStepsLong, TRUE) /\ ~last'.raised

SpecClean == Init /\ [][NextClean]_vars

\* The processes of Spec, any of whose checkpoints may stop between two
\* statements of its recompute branch
NextCrash ==
    \/ Calls(MaxSteps, FALSE)
    \/ \E i \in DOMAIN steps, r \in BOOLEAN, at \in {"store", "store_hash"} :
          CheckpointInterrupted(i, r, at)

SpecCrash == Init /\ [][NextCrash]_vars

\* One process whose calls carry keyword arguments: a literal under the name
\* 'k' or 'ab', or under both in either order, or the Trail of an earlier Step
\* under the name 'ab'.  Its two definitions of f have the same bytecode and
\* constants.
KwTargets == {F1, F3}

KwargsChoices ==
    {NoKwargs} \cup {<< <<KeyK, a>> >> : a \in Lits}
        \cup {<< <<KeyAB, a>> >> : a \in Lits \cup {Dep(steps[i].trail) : i \in DOMAIN steps}}
        \cup {<< <<KeyAB, a>>, <<KeyK, a>> >> : a \in Lits}
        \cup {<< <<KeyK, a>>, <<KeyAB, a>> >> : a \in Lits}

NextKw ==
    \/ \E target \in KwTargets, a \in Lits, kwargs \in KwargsChoices :
          Len(steps) < MaxSteps /\ CacheStep(target, <<a>>, kwargs)
    \/ \E i \in DOMAIN steps, target \in ChainTargets, kwargs \in KwargsChoices :
          Len(steps) < MaxSteps /\ StepStep(i, target, <<>>, kwargs)
    \/ \E i \in DOMAIN steps : Recompute(i)
    \/ \E i \in DOMAIN steps : Get(i)
    \/ \E i \in DOMAIN steps, r \in BOOLEAN : Checkpoint(i, r)

SpecKw == Init /\ [][NextKw]_vars

\* One process that also records calls: it builds chains f -> g, calls
\* checkpoint() with its default argument, and records g or a raising
\* function on a literal or on a Step, or a Step itself, while observed
\* holds fewer than MaxObserved entries
NextRecord ==
    \/ \E target \in {F1, FX}, a \in Lits :
          Len(steps) < MaxSteps /\ CacheStep(target, <<a>>, NoKwargs)
    \/ \E i \in DOMAIN steps, target \in ChainTargets :
          /\ Len(steps) < MaxSteps
          /\ ~has_deps(steps[i])
          /\ StepStep(i, target, <<>>, NoKwargs)
    \/ \E i \in DOMAIN steps : Recompute(i)
    \/ \E i \in DOMAIN steps : Get(i)
    \/ \E i \in DOMAIN steps : Checkpoint(i, FALSE)
    \/ \E target \in {G1, FX}, a \in Lits \cup {StepRef(i) : i \in DOMAIN steps} :
          Len(observed) < MaxObserved /\ CacheRecord(target, <<a>>, NoKwargs)
    \/ \E i \in DOMAIN steps :
          Len(observed) < MaxObserved /\ StepRecord(i)

SpecRecord == Init /\ [][NextRecord]_vars

---------------------------------------------------------------------------
(* Properties *)

\* Direct evaluation of a Step: its target applied to its arguments, every
\* dependency Trail replaced by the direct evaluation of the Step registered
\* for it in step_graph
RECURSIVE FromScratch(_, _, _)
FromScratch(stps, sg, s) ==
    LET resolve(a) == IF IsCall(a) /\ a.v \in DOMAIN sg
                      THEN FromScratch(stps, sg, stps[sg[a.v]])
                      ELSE [ok |-> TRUE, val |-> a]
        sub == [i \in DOMAIN s.args |-> resolve(s.args[i])]
        kw == [key \in DOMAIN DictOf(s.kwargs) |-> resolve(DictOf(s.kwargs)[key])]
        depsOk == (\A i \in DOMAIN sub : sub[i].ok) /\ (\A key \in DOMAIN kw : kw[key].ok)
        r == Invoke(s.target, [i \in DOMAIN sub |-> sub[i].val],
                    [key \in DOMAIN kw |-> kw[key].val])
    IN IF depsOk THEN r ELSE [ok |-> FALSE, val |-> NoVal]

\* The Step of the last call, and its Trail
LastStep == steps[last.sid]
LastTrail == steps[last.sid].trail

\* C1: once s.checkpoint() has returned, s.get() returns the value of the
\* direct evaluation of s (whenever that evaluation returns a value).
C1_RoundTrip ==
    (last.op = "checkpoint" /\ ~last.raised
        /\ FromScratch(steps, step_graph, LastStep).ok)
    => LET got == Execute(graph, disk, LastTrail)
       IN got.ok /\ got.val = FromScratch(steps, step_graph, LastStep).val

\* C2: a checkpoint(recompute=r) that has computed its hash takes the
\* recompute-and-persist branch iff r is true, or there is no manifest, or the
\* manifest differs from the hash; when that branch returns, the artifact is
\* the value just evaluated from the reinstalled compute entry and the
\* manifest is the hash; in the other case no target is invoked and the disk
\* is left as it was.
C2_DecisionRule ==
    [][ (last'.op = "checkpoint" /\ hash(steps, step_graph, steps[last'.sid]).ok)
        => LET s == steps[last'.sid]
               h == hash(steps, step_graph, s).val
               stored == load_hash(disk, s.trail)
               evaluated == Execute(Put(graph, s.trail, ComputeEntry(s)), disk, s.trail)
           IN /\ last'.recomputed <=> (last'.r \/ stored = None \/ stored # h)
              /\ last'.recomputed =>
                    /\ last'.raised = ~evaluated.ok
                    /\ last'.invoked = evaluated.invoked
                    /\ evaluated.ok =>
                          /\ load(disk', StoreName(s.trail)) = [ok |-> TRUE, val |-> evaluated.val]
                          /\ load_hash(disk', s.trail) = h
              /\ ~last'.recomputed =>
                    /\ ~last'.raised
                    /\ last'.invoked = {}
                    /\ disk' = disk
      ]_vars

\* C2 witness: a forced checkpoint(recompute=True) recomputed right after a
\* checkpoint of the same Step had returned (the manifest was up to date).
C2_Witness ==
    /\ last.op = "checkpoint" /\ last.r /\ last.again
    /\ last.recomputed /\ ~last.raised /\ last.invoked # {}

\* C3: a checkpoint() that directly follows a returned checkpoint of the same
\* Step finds the stored hash equal to its hash, invokes no target, writes
\* nothing, and only sets the graph entry of the Trail to the load entry.
C3_Idempotence ==
    [][ (last.op = "checkpoint" /\ ~last.raised
            /\ last'.op = "checkpoint" /\ last'.sid = last.sid /\ ~last'.r)
        => LET s == steps[last.sid]
           IN /\ load_hash(disk, s.trail) = hash(steps, step_graph, s).val
              /\ ~last'.recomputed /\ ~last'.raised /\ last'.invoked = {}
              /\ disk' = disk
              /\ graph' = Put(graph, s.trail, LoadEntry(s.trail))
              /\ UNCHANGED <<steps, step_graph, observed>>
      ]_vars

\* C3 witness: the second of two checkpoint() calls in a row has returned
\* without recomputing, on a Step whose chain has a dependency.
C3_Witness ==
    /\ last.op = "checkpoint" /\ last.again /\ ~last.r
    /\ ~last.recomputed /\ ~last.raised /\ last.invoked = {}
    /\ has_deps(LastStep)
    /\ graph[LastTrail] = LoadEntry(LastTrail)

\* C4: in a process that has not called checkpoint yet, on a directory whose
\* manifest for the last Step of a chain equals that Step's hash (it was
\* checkpointed by an earlier process with the same functions), checkpoint()
\* invokes no target and writes nothing, and get() then returns the stored
\* artifact without invoking a target.
C4_CrossSession ==
    [][ (fresh /\ last'.op = "checkpoint" /\ ~last'.r
            /\ has_deps(steps[last'.sid])
            /\ hash(steps, step_graph, steps[last'.sid]).ok
            /\ load_hash(disk, steps[last'.sid].trail)
                 = hash(steps, step_graph, steps[last'.sid]).val)
        => LET s == steps[last'.sid]
               got == Execute(graph', disk', s.trail)
           IN /\ ~last'.raised /\ last'.invoked = {}
              /\ disk' = disk
              /\ got.ok /\ got.invoked = {}
              /\ got.val = disk[BlobFile(StoreName(s.trail))]
      ]_vars

\* C4 witness: the first checkpoint() of a process, on the last Step of a
\* chain f -> g, returned without recomputing (the manifest was left by an
\* earlier process), and get() loads the value g(f(3)).
C4_Witness ==
    /\ last.op = "checkpoint" /\ last.first /\ ~last.r
    /\ ~last.recomputed /\ ~last.raised /\ last.invoked = {}
    /\ has_deps(LastStep)
    /\ Execute(graph, disk, LastTrail).invoked = {}
    /\ Execute(graph, disk, LastTrail).val
         = [k |-> "app", v |-> <<"g1", <<[k |-> "app", v |-> <<"f1", <<Lit(3)>>, <<>>>>]>>, <<>>>>]

\* C5: a graph entry that is the load entry stays the load entry under every
\* call other than recompute() or checkpoint(recompute=True) on a Step of that
\* Trail (and the start of a new process).
C5_RewirePersists ==
    [][ \A t \in DOMAIN graph :
          (/\ graph[t] = LoadEntry(t)
           /\ last'.op # "init"
           /\ ~(last'.op = "recompute" /\ steps[last'.sid].trail = t)
           /\ ~(last'.op = "checkpoint" /\ last'.r /\ steps[last'.sid].trail = t))
          => (t \in DOMAIN graph' /\ graph'[t] = LoadEntry(t))
      ]_vars

\* C6: two Steps with the same Trail (same function name and arguments) whose
\* targets compute different functions have different hashes (the first part
\* of the claim, on which the propagation to downstream Steps rests).
C6_HashSensitivity ==
    \A i, j \in DOMAIN steps :
        (/\ steps[i].trail = steps[j].trail
         /\ steps[i].target.impl # steps[j].target.impl
         /\ hash(steps, step_graph, steps[i]).ok
         /\ hash(steps, step_graph, steps[j]).ok)
        => hash(steps, step_graph, steps[i]).val # hash(steps, step_graph, steps[j]).val

\* C7: s.recompute() leaves the compute entry of s.target and s's arguments
\* under s.trail, changes no other graph entry, no step_graph entry and no
\* file, and a second recompute() changes nothing.
C7_Recompute ==
    [][ last'.op = "recompute"
        => LET s == steps[last'.sid]
           IN /\ DOMAIN graph' = DOMAIN graph
              /\ \A t \in DOMAIN graph : t # s.trail => graph'[t] = graph[t]
              /\ graph'[s.trail].kind = "apply_with_kwargs"
              /\ graph'[s.trail].target = s.target
              /\ graph'[s.trail].args = s.args
              /\ recompute(graph', s) = graph'
              /\ UNCHANGED <<steps, step_graph, observed, disk>>
      ]_vars

\* C7 witness: recompute() has put back the compute entry of a Step whose
\* artifact this process had checkpointed.
C7_Witness ==
    /\ last.op = "recompute" /\ ~fresh
    /\ BlobFile(StoreName(LastTrail)) \in DOMAIN disk
    /\ HashFile(LastTrail) \in DOMAIN disk
    /\ graph[LastTrail] = ComputeEntry(LastStep)

\* C8: a.step(g) creates a Step with Trail (g's name, (a.trail,), kwargs)
\* whose previous() yields exactly the Step a.
C8_Chaining ==
    (last.op = "step" /\ last.from # 0)
    => /\ LastTrail = Call(LastStep.target.name,
                           <<Dep(steps[last.from].trail)>>, DictOf(LastStep.kwargs))
       /\ previous(step_graph, LastStep) = [ok |-> TRUE, yield |-> <<last.from>>]

\* The Steps registered for the Trails among the values of a sequence
DepSteps(sg, values) ==
    LET deps == SelectSeq(values, IsCall)
    IN [i \in DOMAIN deps |-> sg[deps[i].v]]

\* C9: previous() yields the Step of every positional value that is a Trail,
\* in order, then the Step of every keyword value that is a Trail; has_deps()
\* is true iff previous() yields a Step.
C9_Previous ==
    \A i \in DOMAIN steps :
        LET s == steps[i]
            keys == KeyList(s.kwargs)
            p == previous(step_graph, s)
        IN /\ p.ok
           /\ p.yield = DepSteps(step_graph, s.trail.args)
                          \o DepSteps(step_graph, [n \in DOMAIN keys |-> s.trail.kwargs[keys[n]]])
           /\ has_deps(s) <=> Len(p.yield) > 0

\* C10: a get(), checkpoint() or record() that raises leaves graph,
\* step_graph, observed and the directory as they were.
C10_FailureFrame ==
    [][ (last'.raised /\ last'.op \in {"get", "checkpoint", "record"})
        => UNCHANGED <<graph, step_graph, observed, disk>>
      ]_vars

C12_KwargsReachTarget ==
    \A i \in DOMAIN steps :
        LET s == steps[i]
            direct == FromScratch(steps, step_graph, s)
            got == Execute(graph, disk, s.trail)
        IN (s.kwargs # NoKwargs /\ graph[s.trail] = ComputeEntry(s) /\ direct.ok)
           => /\ got.ok
              /\ got.val.v[3] = direct.val.v[3]
              /\ got.val = direct.val

\* C13: a checkpoint() that returns directly after a checkpoint of a Step
\* with the same Trail took its recompute branch and failed (it raised in
\* get(), or stopped between writing the artifact and writing the manifest)
\* leaves a node whose get() returns the value of the direct evaluation of
\* its Step, whatever that Step's target is.
C13_InterruptedCorrected ==
    [][ (/\ last.op = "checkpoint" /\ last.recomputed /\ last.raised
         /\ last'.op = "checkpoint" /\ ~last'.raised
         /\ steps[last'.sid].trail = steps[last.sid].trail
         /\ FromScratch(steps, step_graph, steps[last'.sid]).ok)
        => LET s == steps[last'.sid]
               got == Execute(graph', disk', s.trail)
           IN got.ok /\ got.val = FromScratch(steps, step_graph, s).val
      ]_vars

\* C14: every Step s created on the Cache is the Step registered for its
\* Trail, step_graph[s.trail] is s, and graph[s.trail] is the compute entry of
\* s's own target and arguments or the load entry of s.trail; in particular
\* after s.recompute().
C14_Registry ==
    \A i \in DOMAIN steps :
        LET s == steps[i]
        IN /\ s.trail \in DOMAIN step_graph /\ s.trail \in DOMAIN graph
           /\ step_graph[s.trail] = i
           /\ graph[s.trail] \in {ComputeEntry(s), LoadEntry(s.trail)}

C16_ManifestImpliesArtifact ==
    \A p \in DOMAIN disk :
        p.ext = ".hash" => BlobFile(StoreName(p.file.md5)) \in DOMAIN disk

\* C16 witness: a checkpoint() stopped after it wrote the artifact of a Trail
\* that has no manifest yet.
C16_Witness ==
    /\ last.op = "checkpoint" /\ last.raised /\ last.recomputed
    /\ last.invoked # {}
    /\ BlobFile(StoreName(LastTrail)) \in DOMAIN disk
    /\ HashFile(LastTrail) \notin DOMAIN disk

\* C17: hash() of every Step returns the hashes of its direct dependencies
\* (the Steps of its positional Trails, then those of its keyword Trails), in
\* that order, followed by the digest of (trail, args, kwargs, bytecode,
\* constants); it is that digest alone when has_deps() is false, and it has a
\* non-empty prefix when has_deps() is true.
C17_HashComposition ==
    \A i \in DOMAIN steps :
        LET s == steps[i]
            h == hash(steps, step_graph, s)
            keys == KeyList(s.kwargs)
            deps == DepSteps(step_graph, s.trail.args)
                      \o DepSteps(step_graph, [n \in DOMAIN keys |-> s.trail.kwargs[keys[n]]])
            sub == [n \in DOMAIN deps |-> hash(steps, step_graph, steps[deps[n]])]
            own == joblib_hash(<<s.trail, s.args, DictOf(s.kwargs),
                                 s.target.co_code, s.target.co_consts>>)
        IN /\ h.ok
           /\ \A n \in DOMAIN sub : sub[n].ok
           /\ h.val.hex = Concat([n \in DOMAIN sub |-> sub[n].val.hex]) \o <<own>>
           /\ has_deps(s) => Len(h.val.hex) > 1
           /\ ~has_deps(s) => h.val.hex = <<own>>

\* The callable of the inputs that computes the function impl
TargetOf(impl) == CHOOSE t \in {F1, F2, F3, FX, G1} : t.impl = impl

\* The code fingerprints (bytecode, constants) of the callables that computed
\* a value, dependencies first
RECURSIVE Fingerprints(_)
Fingerprints(val) ==
    IF val.k = "app"
    THEN Concat([i \in DOMAIN val.v[2] |-> Fingerprints(val.v[2][i])])
           \o << <<TargetOf(val.v[1]).co_code, TargetOf(val.v[1]).co_consts>> >>
    ELSE <<>>

\* C18: in every state reached by calls that do not raise, the artifact of a
\* Trail that has a manifest is a value computed by exactly the callables
\* whose code fingerprints make up the hash in the manifest.
C18_Coherence ==
    \A p \in DOMAIN disk :
        p.ext = ".hash" =>
            LET blob == BlobFile(StoreName(p.file.md5))
                H == disk[p].hex
            IN /\ blob \in DOMAIN disk
               /\ Fingerprints(disk[blob])
                    = [n \in DOMAIN H |-> <<H[n].md5[4], H[n].md5[5]>>]

\* C19: s.record() on a Step s whose graph entry is its compute entry and
\* whose get() returns a value returns that same value (the target applied to
\* its arguments with every dependency replaced by its evaluated value) and
\* appends one entry holding it to observed.
C19_RecordAgreesWithGet ==
    [][ (/\ last'.op = "record" /\ last'.sid # 0
         /\ graph[steps[last'.sid].trail] = ComputeEntry(steps[last'.sid])
         /\ Execute(graph, disk, steps[last'.sid].trail).ok)
        => /\ ~last'.raised
           /\ Len(observed') = Len(observed) + 1
           /\ observed'[Len(observed')][4]
                = Execute(graph, disk, steps[last'.sid].trail).val
      ]_vars

====
